---------------------------- MODULE Spec2Model ----------------------------
(***************************************************************************)
(* One Intersection (Intersection.cpp) with its WaitingVehicles queue and  *)
(* its TrafficLight / MessageQueue (TrafficLight.cpp).                     *)
(*                                                                         *)
(* Threads: one per vehicle (the callers of addVehicleToQueue and          *)
(* vehicleHasLeft), the admission loop (processVehicleQueue) and the       *)
(* phase-toggle loop (cycleThroughPhases).  A step of the model is one     *)
(* access to shared memory or one critical section of a lock_guard; the    *)
(* program counters are named after the source line the thread is at.      *)
(* Console output and the sleeps are not modelled: they change no state.   *)
(***************************************************************************)
EXTENDS Integers, Sequences, FiniteSets, TLC

(* ------------------------------ bounds -------------------------------- *)

\* number of vehicle threads
NumVehicles == 2

\* calls of addVehicleToQueue made in all, by whichever vehicles
MaxCalls == 2

\* the toggle loop pauses while the channel buffers this many values
MaxMsgs == 2

Vehicles == 1..NumVehicles

\* the admission loop's thread, as a holder of a mutex
LoopThread == "processVehicleQueue"

\* a mutex is the set of its holders: empty, or one thread
Free == {}

VARIABLES
    \* ---- WaitingVehicles
    _vehicles,      \* std::vector<std::shared_ptr<Vehicle>>
    _promises,      \* std::vector<std::promise<void>>: the request each belongs to
    wv_mutex,       \* WaitingVehicles::_mutex: Free or {its holder}
    fulfilled,      \* the promises on which set_value() was called
    \* ---- Intersection
    _isBlocked,     \* bool _isBlocked
    _mtx,           \* Intersection::_mtx: Free or {the vehicle holding it}
    lpc,            \* processVehicleQueue: where the admission loop is
    \* ---- TrafficLight / MessageQueue
    _currentPhase,  \* TrafficLightPhase _currentPhase
    _messages,      \* std::vector<T> _messages; each value with its send number
    _cond,          \* the threads blocked in _cond.wait
    tpc,            \* cycleThroughPhases: where the toggle loop is
    \* ---- vehicle threads
    pc,             \* where each vehicle is
    trips,          \* calls each vehicle thread has started
    \* ---- history (written, never read by the program's steps)
    enqOrder,       \* requests in the order their pushBack completed
    grantOrder,     \* requests in the order their promise was fulfilled
    departures,     \* calls of vehicleHasLeft
    nSent,          \* values sent on the channel
    lastSent,       \* the value sent last, "none" before the first send
    nRecv,          \* values receive() has returned
    sizeSeen,       \* the getSize() result of the admission loop's iteration
    lastRecv,       \* send number of the value the last receive() returned
    maxRecv,        \* largest send number any receive() has returned
    wfgGreen        \* per vehicle: send number of the newest green value that
                    \* was buffered when its current waitForGreen call began

vars == << _vehicles, _promises, wv_mutex, fulfilled, _isBlocked, _mtx, lpc,
           _currentPhase, _messages, _cond, tpc, pc, trips,
           enqOrder, grantOrder, departures, nSent, lastSent, sizeSeen,
           nRecv, lastRecv, maxRecv, wfgGreen >>

wvVars  == << _vehicles, _promises, wv_mutex, fulfilled >>
isVars  == << _isBlocked, lpc >>
tlVars  == << _currentPhase, _messages, _cond, tpc >>
callHist == << enqOrder, grantOrder, departures, nSent, lastSent, sizeSeen,
              nRecv, lastRecv, maxRecv >>
histVars == << callHist, wfgGreen >>

\* the request (promise/future pair) a vehicle creates in its current call
Request(v) == << v, trips[v] >>

(* ------------------------------- Init --------------------------------- *)

\* Intersection::Intersection, TrafficLight::TrafficLight, empty containers
Init ==
    /\ _vehicles = << >>
    /\ _promises = << >>
    /\ wv_mutex = Free
    /\ fulfilled = {}
    /\ _isBlocked = FALSE
    /\ _mtx = Free
    /\ lpc = "l192"
    /\ _currentPhase = "red"
    /\ _messages = << >>
    /\ _cond = {}
    /\ tpc = "l112"
    /\ pc = [v \in Vehicles |-> "idle"]
    /\ trips = [v \in Vehicles |-> 0]
    /\ enqOrder = << >>
    /\ grantOrder = << >>
    /\ departures = 0
    /\ nSent = 0
    /\ lastSent = "none"
    /\ nRecv = 0
    /\ sizeSeen = 0
    /\ lastRecv = 0
    /\ maxRecv = 0
    /\ wfgGreen = [v \in Vehicles |-> 0]

(* --------------------------- WaitingVehicles --------------------------- *)

\* WaitingVehicles::getSize, under lock_guard(_mutex)
getSize == Len(_vehicles)

\* a pushBack that puts the promise at the front of _promises
pushBackPromiseFront(v) ==
    /\ wv_mutex = Free
    /\ _vehicles' = Append(_vehicles, v)
    /\ _promises' = << Request(v) >> \o _promises
    /\ enqOrder' = Append(enqOrder, Request(v))
    /\ UNCHANGED << wv_mutex, fulfilled >>

\* WaitingVehicles::pushBack: both push_back calls in one critical section
pushBack(v) ==
    /\ wv_mutex = Free
    /\ _vehicles' = Append(_vehicles, v)
    /\ _promises' = Append(_promises, Request(v))
    /\ enqOrder' = Append(enqOrder, Request(v))
    /\ UNCHANGED << wv_mutex, fulfilled >>

(* ------------------------- vehicle: addVehicleToQueue ------------------ *)

\* the calls the vehicle threads have started so far
Calls == Cardinality({r \in Vehicles \X (1..MaxCalls) : r[2] <= trips[r[1]]})

\* a vehicle thread calls addVehicleToQueue (line 114)
Call(v) ==
    /\ pc[v] = "idle"
    /\ Calls < MaxCalls
    /\ trips' = [trips EXCEPT ![v] = @ + 1]
    /\ pc' = [pc EXCEPT ![v] = "l116"]
    /\ UNCHANGED << wvVars, isVars, tlVars, _mtx, histVars >>

\* line 116: std::unique_lock<std::mutex> lck(_mtx)
Lock1(v) ==
    /\ pc[v] = "l116"
    /\ _mtx = Free
    /\ _mtx' = {v}
    /\ pc' = [pc EXCEPT ![v] = "l118"]
    /\ UNCHANGED << wvVars, isVars, tlVars, trips, histVars >>

\* line 118: lck.unlock()
Unlock1(v) ==
    /\ pc[v] = "l118"
    /\ _mtx' = Free
    /\ pc' = [pc EXCEPT ![v] = "l123"]
    /\ UNCHANGED << wvVars, isVars, tlVars, trips, histVars >>

\* lines 121-123: the promise, its future, _waitingVehicles.pushBack
PushBack(v) ==
    /\ pc[v] = "l123"
    /\ pushBack(v)
    /\ pc' = [pc EXCEPT ![v] = "l126"]
    /\ UNCHANGED << isVars, tlVars, _mtx, trips,
                    grantOrder, departures, nSent, lastSent, sizeSeen, nRecv,
                    lastRecv, maxRecv, wfgGreen >>

\* a wait that does not wait
futureReadyAtOnce(r) == TRUE

\* std::future<void>::wait of the future of promise r: ready once r is set
futureReady(r) == r \in fulfilled

\* line 126: ftrVehicleAllowedToEnter.wait() returns once the promise is set
FutureWait(v) ==
    /\ pc[v] = "l126"
    /\ futureReady(Request(v))
    /\ pc' = [pc EXCEPT ![v] = "l127"]
    /\ UNCHANGED << wvVars, isVars, tlVars, _mtx, trips, histVars >>

\* a vehicle that goes on after its grant without taking _mtx again
Lock2Skipped(v) ==
    /\ pc[v] = "l127"
    /\ _mtx' = _mtx
    /\ pc' = [pc EXCEPT ![v] = "l131"]
    /\ UNCHANGED << wvVars, isVars, tlVars, trips, histVars >>

\* line 127: lck.lock()
Lock2(v) ==
    /\ pc[v] = "l127"
    /\ _mtx = Free
    /\ _mtx' = {v}
    /\ pc' = [pc EXCEPT ![v] = "l131"]
    /\ UNCHANGED << wvVars, isVars, tlVars, trips, histVars >>

\* the send number of the newest green value in a buffer, 0 if it has none
newestGreen(msgs) ==
    LET g == {msgs[i].sent : i \in {j \in 1..Len(msgs) : msgs[j].phase = "green"}}
    IN IF g = {} THEN 0 ELSE CHOOSE k \in g : \A m \in g : m <= k

\* TrafficLight::getCurrentPhase: an unsynchronised read of _currentPhase
getCurrentPhase == _currentPhase

\* lines 131-135: read the phase; red leads into waitForGreen (line 66)
CheckPhase(v) ==
    /\ pc[v] = "l131"
    /\ pc' = [pc EXCEPT ![v] = IF getCurrentPhase = "red" THEN "l66" ELSE "l136"]
    /\ wfgGreen' = [wfgGreen EXCEPT ![v] = IF getCurrentPhase = "red"
                                              THEN newestGreen(_messages)
                                              ELSE 0]
    /\ UNCHANGED << wvVars, isVars, tlVars, _mtx, trips, callHist >>

\* MessageQueue::receive, the critical section entered with an empty buffer:
\* _cond.wait releases the lock and blocks the thread (line 25)
ReceiveBlock(v) ==
    /\ pc[v] = "l66"
    /\ _messages = << >>
    /\ _cond' = _cond \cup {v}
    /\ pc' = [pc EXCEPT ![v] = "l25"]
    /\ UNCHANGED << wvVars, isVars, _currentPhase, _messages, tpc, _mtx, trips,
                    histVars >>

\* line 25: a thread blocked in _cond.wait runs again after a notify_one
\* chose it (it is no longer in _cond) and re-evaluates the predicate
CondWake(v) ==
    /\ pc[v] = "l25"
    /\ v \notin _cond
    /\ pc' = [pc EXCEPT ![v] = "l66"]
    /\ UNCHANGED << wvVars, isVars, tlVars, _mtx, trips, histVars >>

\* line 25: condition_variable::wait may wake spuriously
SpuriousWake(v) ==
    /\ pc[v] = "l25"
    /\ v \in _cond
    /\ _cond' = _cond \ {v}
    /\ pc' = [pc EXCEPT ![v] = "l66"]
    /\ UNCHANGED << wvVars, isVars, _currentPhase, _messages, tpc, _mtx, trips,
                    histVars >>

\* a receive that takes the oldest value, _queue.front()
frontIndex(msgs) == 1

\* lines 28-29: the value receive() takes from a non-empty buffer
receiveIndex(msgs) == Len(msgs)

\* a receive that copies the value and leaves it in the buffer
notPopped(msgs, i) == msgs

\* line 29: the buffer after the value at index i was taken out
popped(msgs, i) ==
    [j \in 1..(Len(msgs) - 1) |-> IF j < i THEN msgs[j] ELSE msgs[j + 1]]

\* MessageQueue::receive with a non-empty buffer (lines 25-31) and the test
\* of waitForGreen on the value returned (lines 66-70)
Receive(v) ==
    /\ pc[v] = "l66"
    /\ _messages # << >>
    /\ LET i == receiveIndex(_messages)
           msg == _messages[i]
       IN /\ _messages' = popped(_messages, i)
          /\ nRecv' = nRecv + 1
          /\ lastRecv' = msg.sent
          /\ maxRecv' = IF msg.sent > maxRecv THEN msg.sent ELSE maxRecv
          /\ pc' = [pc EXCEPT ![v] = IF msg.phase = "green" THEN "l136" ELSE "l66"]
    /\ UNCHANGED << wvVars, isVars, _currentPhase, _cond, tpc, _mtx, trips,
                    enqOrder, grantOrder, departures, nSent, lastSent,
                    sizeSeen, wfgGreen >>

\* line 136: lck.unlock(), and addVehicleToQueue returns
Return(v) ==
    /\ pc[v] = "l136"
    /\ _mtx' = Free
    /\ pc' = [pc EXCEPT ![v] = "returned"]
    /\ wfgGreen' = [wfgGreen EXCEPT ![v] = 0]
    /\ UNCHANGED << wvVars, isVars, tlVars, trips, callHist >>

\* a thread calls TrafficLight::waitForGreen directly (line 59) and enters
\* its loop (line 66); the method is public and takes no lock of its own
CallWaitForGreen(v) ==
    /\ pc[v] = "idle"
    /\ Calls < MaxCalls
    /\ trips' = [trips EXCEPT ![v] = @ + 1]
    /\ pc' = [pc EXCEPT ![v] = "l66"]
    /\ wfgGreen' = [wfgGreen EXCEPT ![v] = newestGreen(_messages)]
    /\ UNCHANGED << wvVars, isVars, tlVars, _mtx, callHist >>

\* lines 67-70: a direct call of waitForGreen returns to its caller
WaitForGreenReturn(v) ==
    /\ pc[v] = "l136"
    /\ _mtx # {v}
    /\ pc' = [pc EXCEPT ![v] = "idle"]
    /\ wfgGreen' = [wfgGreen EXCEPT ![v] = 0]
    /\ UNCHANGED << wvVars, isVars, tlVars, _mtx, trips, callHist >>

(* --------------------------- vehicleHasLeft ---------------------------- *)

\* setIsBlocked that flips the flag instead of storing its argument
setIsBlockedFlip(isBlocked) == _isBlocked' = ~_isBlocked

\* setIsBlocked with the assignment lost
setIsBlockedNoStore(isBlocked) == _isBlocked' = _isBlocked

\* Intersection::setIsBlocked
setIsBlocked(isBlocked) == _isBlocked' = isBlocked

\* the vehicle that was granted entry calls vehicleHasLeft after its
\* addVehicleToQueue returned (line 144); no lock is taken
CallHasLeft(v) ==
    /\ pc[v] = "returned"
    /\ pc' = [pc EXCEPT ![v] = "l149"]
    /\ UNCHANGED << wvVars, isVars, tlVars, _mtx, trips, histVars >>

\* any thread calls vehicleHasLeft (line 144), whether or not its vehicle
\* was granted entry: the method is public and does not look at its argument
StrayCallHasLeft(v) ==
    /\ pc[v] = "idle"
    /\ Calls < MaxCalls
    /\ trips' = [trips EXCEPT ![v] = @ + 1]
    /\ pc' = [pc EXCEPT ![v] = "l149"]
    /\ UNCHANGED << wvVars, isVars, tlVars, _mtx, histVars >>

\* Intersection::vehicleHasLeft, line 149: this->setIsBlocked(false)
vehicleHasLeft(v) ==
    /\ pc[v] = "l149"
    /\ setIsBlocked(FALSE)
    /\ departures' = departures + 1
    /\ pc' = [pc EXCEPT ![v] = "idle"]
    /\ UNCHANGED << wvVars, lpc, tlVars, _mtx, trips,
                    enqOrder, grantOrder, nSent, lastSent, sizeSeen, nRecv,
                    lastRecv, maxRecv, wfgGreen >>

(* ------------------------- processVehicleQueue ------------------------- *)

\* the size test off by one, either way
sizeCheckFromZero(n) == n >= 0
sizeCheckAboveOne(n) == n > 1

\* line 192, left operand: _waitingVehicles.getSize() > 0
sizeCheck(n) == n > 0

LoopGetSize ==
    /\ lpc = "l192"
    /\ wv_mutex = Free
    /\ lpc' = IF sizeCheck(getSize) THEN "l192b" ELSE "l192"
    /\ sizeSeen' = IF sizeCheck(getSize) THEN getSize ELSE 0
    /\ UNCHANGED << wvVars, _isBlocked, tlVars, _mtx, pc, trips,
                    enqOrder, grantOrder, departures, nSent, lastSent, nRecv,
                    lastRecv, maxRecv, wfgGreen >>

\* the admission test without its right operand
blockedCheckDropped(isBlocked) == TRUE

\* line 192, right operand: !_isBlocked
blockedCheck(isBlocked) == ~isBlocked

\* line 192, right operand: _isBlocked is read without any lock
LoopReadBlocked ==
    /\ lpc = "l192b"
    /\ lpc' = IF blockedCheck(_isBlocked) THEN "l195" ELSE "l192"
    /\ sizeSeen' = IF blockedCheck(_isBlocked) THEN sizeSeen ELSE 0
    /\ UNCHANGED << wvVars, _isBlocked, tlVars, _mtx, pc, trips,
                    enqOrder, grantOrder, departures, nSent, lastSent, nRecv,
                    lastRecv, maxRecv, wfgGreen >>

\* the admission loop without its line 195
LoopSetBlockedSkipped ==
    /\ lpc = "l195"
    /\ lpc' = "l198"
    /\ UNCHANGED << wvVars, _isBlocked, tlVars, _mtx, pc, trips, histVars >>

\* line 195: this->setIsBlocked(true)
LoopSetBlocked ==
    /\ lpc = "l195"
    /\ setIsBlocked(TRUE)
    /\ lpc' = "l198"
    /\ UNCHANGED << wvVars, tlVars, _mtx, pc, trips, histVars >>

\* the newest entry instead of the oldest
lastIndex == Len(_promises)

\* the element permitEntryToFirstInQueue takes (lines 56-57: begin())
firstIndex == 1

\* permitEntryToFirstInQueue, lines 53-60: lock, firstPromise->set_value().
\* On an empty vector begin() is end() and the call is undefined: the loop
\* thread is then taken to be lost ("undefined").
PermitSetValue ==
    /\ lpc = "l198"
    /\ wv_mutex = Free
    /\ IF _promises = << >>
         THEN /\ lpc' = "undefined"
              /\ UNCHANGED << wvVars, grantOrder >>
         ELSE /\ wv_mutex' = {LoopThread}
              /\ fulfilled' = fulfilled \cup {_promises[firstIndex]}
              /\ grantOrder' = Append(grantOrder, _promises[firstIndex])
              /\ lpc' = "l63"
              /\ UNCHANGED << _vehicles, _promises >>
    /\ UNCHANGED << _isBlocked, tlVars, _mtx, pc, trips,
                    enqOrder, departures, nSent, lastSent, sizeSeen, nRecv,
                    lastRecv, maxRecv, wfgGreen >>

\* an erase that removes the newest entry (pop_back) whatever i is
eraseBack(s, i) == [j \in 1..(Len(s) - 1) |-> s[j]]

\* a vector without its element at index i (std::vector::erase)
erase(s, i) == [j \in 1..(Len(s) - 1) |-> IF j < i THEN s[j] ELSE s[j + 1]]

\* permitEntryToFirstInQueue, lines 63-65: both erase calls, unlock
PermitErase ==
    /\ lpc = "l63"
    /\ _vehicles' = erase(_vehicles, firstIndex)
    /\ _promises' = erase(_promises, firstIndex)
    /\ wv_mutex' = Free
    /\ lpc' = "l192"
    /\ sizeSeen' = 0
    /\ UNCHANGED << fulfilled, _isBlocked, tlVars, _mtx, pc, trips,
                    enqOrder, grantOrder, departures, nSent, lastSent, nRecv,
                    lastRecv, maxRecv, wfgGreen >>

(* ------------------------- cycleThroughPhases -------------------------- *)

\* a toggle whose else branch assigns green as well
toggledToGreen(p) == "green"

\* lines 114-121: the other phase
toggled(p) == IF p = "red" THEN "green" ELSE "red"

\* lines 112-121: the phase duration has elapsed, _currentPhase flips
TogglePhase ==
    /\ tpc = "l112"
    /\ Len(_messages) < MaxMsgs
    /\ _currentPhase' = toggled(_currentPhase)
    /\ tpc' = "l122"
    /\ UNCHANGED << wvVars, isVars, _messages, _cond, _mtx, pc, trips,
                    histVars >>

\* a send that notifies nobody
notifyNobody(waiters) == {waiters}

\* _cond.notify_one(): the wait sets it may leave, one waiter (if any) woken
notify_one(waiters) ==
    IF waiters = {} THEN {waiters} ELSE {waiters \ {w} : w \in waiters}

\* a send that purges the values nobody received before it pushes
sendPurging(msg) ==
    /\ _messages' = << [phase |-> msg, sent |-> nSent + 1] >>
    /\ nSent' = nSent + 1
    /\ lastSent' = msg
    /\ _cond' \in notify_one(_cond)

\* a send that cannot proceed while a receiver is blocked in _cond.wait
sendAfterReceivers(msg) ==
    /\ _cond = {}
    /\ _messages' = Append(_messages, [phase |-> msg, sent |-> nSent + 1])
    /\ nSent' = nSent + 1
    /\ lastSent' = msg
    /\ _cond' = _cond

\* MessageQueue::send (lines 44-49), called at line 122 with _currentPhase
send(msg) ==
    /\ _messages' = Append(_messages, [phase |-> msg, sent |-> nSent + 1])
    /\ nSent' = nSent + 1
    /\ lastSent' = msg
    /\ _cond' \in notify_one(_cond)

Send ==
    /\ tpc = "l122"
    /\ send(_currentPhase)
    /\ tpc' = "l112"
    /\ UNCHANGED << wvVars, isVars, _currentPhase, _mtx, pc, trips,
                    enqOrder, grantOrder, departures, sizeSeen, nRecv,
                    lastRecv, maxRecv, wfgGreen >>

(* -------------------------------- Next --------------------------------- *)

Next ==
    \/ \E v \in Vehicles : Call(v)
    \/ \E v \in Vehicles : Lock1(v)
    \/ \E v \in Vehicles : Unlock1(v)
    \/ \E v \in Vehicles : PushBack(v)
    \/ \E v \in Vehicles : FutureWait(v)
    \/ \E v \in Vehicles : Lock2(v)
    \/ \E v \in Vehicles : CheckPhase(v)
    \/ \E v \in Vehicles : ReceiveBlock(v)
    \/ \E v \in Vehicles : CondWake(v)
    \/ \E v \in Vehicles : SpuriousWake(v)
    \/ \E v \in Vehicles : Receive(v)
    \/ \E v \in Vehicles : Return(v)
    \/ \E v \in Vehicles : CallHasLeft(v)
    \/ \E v \in Vehicles : vehicleHasLeft(v)
    \/ LoopGetSize
    \/ LoopReadBlocked
    \/ LoopSetBlocked
    \/ PermitSetValue
    \/ PermitErase
    \/ TogglePhase
    \/ Send

Spec == Init /\ [][Next]_vars

\* the intersection with vehicleHasLeft called at any time by any thread
StrayNext ==
    \/ Next
    \/ \E v \in Vehicles : StrayCallHasLeft(v)

StraySpec == Init /\ [][StrayNext]_vars

\* the phase channel used by any number of threads at once: the toggle loop
\* sends, every other thread calls waitForGreen (and so receive) directly
ChannelNext ==
    \/ \E v \in Vehicles : CallWaitForGreen(v)
    \/ \E v \in Vehicles : ReceiveBlock(v)
    \/ \E v \in Vehicles : CondWake(v)
    \/ \E v \in Vehicles : SpuriousWake(v)
    \/ \E v \in Vehicles : Receive(v)
    \/ \E v \in Vehicles : WaitForGreenReturn(v)
    \/ TogglePhase
    \/ Send

ChannelSpec == Init /\ [][ChannelNext]_vars

(* ------------------------------ fairness ------------------------------- *)

\* the steps a vehicle thread takes once it has called addVehicleToQueue, up
\* to its call of vehicleHasLeft; a spurious wake-up is never owed
VehicleRuns(v) ==
    \/ Lock1(v) \/ Unlock1(v) \/ PushBack(v) \/ FutureWait(v) \/ Lock2(v)
    \/ CheckPhase(v) \/ ReceiveBlock(v) \/ CondWake(v) \/ Receive(v)
    \/ Return(v) \/ CallHasLeft(v) \/ vehicleHasLeft(v)

\* the thread of processVehicleQueue
AdmissionLoop ==
    LoopGetSize \/ LoopReadBlocked \/ LoopSetBlocked \/ PermitSetValue \/ PermitErase

\* the thread of cycleThroughPhases
ToggleLoop == TogglePhase \/ Send

\* every thread that can run eventually runs; every granted vehicle calls
\* vehicleHasLeft
Fairness ==
    /\ \A v \in Vehicles : WF_vars(VehicleRuns(v))
    /\ WF_vars(AdmissionLoop)
    /\ WF_vars(ToggleLoop)

FairSpec == Init /\ [][Next]_vars /\ Fairness

(* ------------------------------ claims --------------------------------- *)

Range(s) == {s[i] : i \in 1..Len(s)}

\* a vehicle past line 126 of its current call of addVehicleToQueue
PastWait == {"l127", "l131", "l66", "l25", "l136"}

\* C1: FIFO admission.  The promises are fulfilled in the order in which
\* their pushBack calls completed: the sequence of grants is a prefix of the
\* sequence of completed pushBack calls.
C1_FifoAdmission ==
    /\ Len(grantOrder) <= Len(enqOrder)
    /\ \A i \in 1..Len(grantOrder) : grantOrder[i] = enqOrder[i]

\* C1 witness: a grant is being issued to vehicle 2 while vehicle 1, which
\* was enqueued later, waits behind it.
C1_Witness ==
    /\ lpc = "l63"
    /\ Len(_vehicles) > 1
    /\ _vehicles[1] = NumVehicles
    /\ grantOrder[Len(grantOrder)] = _promises[1]

\* C2: mutual exclusion of grants.  With vehicleHasLeft called only by the
\* vehicle holding the grant, grants issued minus departures notified is at
\* most 1.
C2_OneGrantOutstanding == Len(grantOrder) - departures <= 1

\* C2 witness: a second grant was issued after the first vehicle called
\* vehicleHasLeft, and is outstanding while the intersection is blocked.
C2_Witness ==
    /\ Len(grantOrder) > 1
    /\ departures > 0
    /\ Len(grantOrder) - departures = 1
    /\ _isBlocked
    /\ lpc = "l192"

\* C3: green gate.  addVehicleToQueue never returns (line 136) while
\* _currentPhase is red at the instant of the return.
C3_GreenGate ==
    \A v \in Vehicles : pc[v] = "l136" => _currentPhase = "green"

C5_NoGrantWithoutDeparture ==
    [][ (Len(grantOrder) > departures /\ departures' = departures) =>
            /\ grantOrder' = grantOrder
            /\ \A v \in Vehicles :
                   (pc[v] = "l136" /\ pc'[v] = "returned") =>
                       Request(v) = grantOrder[Len(grantOrder)] ]_vars

\* C5 witness: A has returned and not called vehicleHasLeft, B waits in the
\* queue with its promise unfulfilled, and the admission loop, past its size
\* test, is about to find the intersection blocked.
C5_Witness ==
    \E a, b \in Vehicles :
        /\ pc[a] = "returned"
        /\ pc[b] = "l126"
        /\ Request(b) \in Range(_promises)
        /\ Request(b) \notin fulfilled
        /\ _isBlocked
        /\ lpc = "l192b"

C7_SendOrder == lastRecv = maxRecv

\* C8 as stated: past line 126 the caller's promise is fulfilled, and the
\* call does not return while its request is still in the waiting queue.
C8_GrantPrecedesReturn_Original ==
    \A v \in Vehicles :
        /\ pc[v] \in PastWait => Request(v) \in fulfilled
        /\ pc[v] = "l136" => Request(v) \notin Range(_promises)

\* C8 amended: past line 126 the caller's promise is fulfilled; its request
\* is still in the waiting queue only at the head and only while
\* permitEntryToFirstInQueue is between set_value (line 60) and the erase
\* calls (lines 63-64), and never with the promise unfulfilled.
C8_GrantPrecedesReturn ==
    \A v \in Vehicles :
        pc[v] \in PastWait =>
            /\ Request(v) \in fulfilled
            /\ Request(v) \in Range(_promises) =>
                   /\ lpc = "l63"
                   /\ _promises[1] = Request(v)

\* C8 witness: a call is about to return while its fulfilled request has
\* not yet been erased from the queue.
C8_Witness ==
    \E v \in Vehicles :
        /\ pc[v] = "l136"
        /\ Request(v) \in fulfilled
        /\ Request(v) \in Range(_promises)

\* the mutexes a thread holds
heldByVehicle(v) == IF _mtx = {v} THEN {"_mtx"} ELSE {}
heldByLoop == IF wv_mutex = {LoopThread} THEN {"wv_mutex"} ELSE {}

\* C9: single mutual-exclusion domain.  Whenever a vehicle is at its write
\* of _isBlocked (line 149 -> 159) while the admission loop is at its read
\* (line 192) or its write (line 195) of _isBlocked, the two hold a common
\* lock; and the admission loop holds the queue's lock from its size test
\* to its test of _isBlocked.
C9_SingleLockDomain ==
    /\ \A v \in Vehicles :
           (pc[v] = "l149" /\ lpc \in {"l192b", "l195"}) =>
               heldByVehicle(v) \cap heldByLoop # {}
    /\ lpc = "l192b" => "wv_mutex" \in heldByLoop

\* C10: permitEntryToFirstInQueue is never executed on an empty queue: from
\* the passed size test to the end of permitEntryToFirstInQueue both
\* vectors are non-empty, and the undefined call never happens.
C10_PermitNonEmpty ==
    /\ lpc \in {"l192b", "l195", "l198", "l63"} =>
           (_vehicles # << >> /\ _promises # << >>)
    /\ lpc # "undefined"

\* C10 witness: the admission loop is about to call
\* permitEntryToFirstInQueue and a pushBack has completed since its size
\* test.
C10_Witness ==
    /\ lpc = "l198"
    /\ Len(_vehicles) > sizeSeen

C12_BlockedCoversGrant ==
    /\ lpc = "l198" => _isBlocked
    /\ Len(grantOrder) > departures => _isBlocked

\* C12 witness: the granted vehicle waits for green inside
\* addVehicleToQueue, after an earlier grant was released by vehicleHasLeft.
C12_Witness ==
    \E v \in Vehicles :
        /\ pc[v] \in {"l66", "l25"}
        /\ Request(v) \in fulfilled
        /\ departures > 0
        /\ _isBlocked

\* the k-th value of the sequence green, red, green, red, ...
Alternating(k) == IF k % 2 = 1 THEN "green" ELSE "red"

\* C13: strict alternation of the light.  The light is red until the first
\* toggle; the k-th value sent is the k-th of green, red, green, ...; between
\* a toggle and its send (line 122) the phase is the other colour than the
\* value sent last, so each toggle flips and is followed by one send of the
\* new phase; and whenever no send is in progress (line 112) the value sent
\* last is the current phase.
C13_StrictAlternation ==
    /\ nSent = 0 => (lastSent = "none" /\ (tpc = "l112" => _currentPhase = "red"))
    /\ nSent > 0 => lastSent = Alternating(nSent)
    /\ \A i \in 1..Len(_messages) :
           _messages[i].phase = Alternating(_messages[i].sent)
    /\ tpc = "l122" => _currentPhase = Alternating(nSent + 1)
    /\ (tpc = "l112" /\ nSent > 0) => lastSent = _currentPhase

\* C13 witness: the light has gone green and red again, both values were
\* sent, and no send is in progress.
C13_Witness ==
    /\ tpc = "l112"
    /\ nSent > 1
    /\ lastSent = "red"
    /\ _currentPhase = "red"

Stamps(msgs) == {msgs[i].sent : i \in 1..Len(msgs)}

\* C15: channel accounting, with any number of threads in receive() at once.
\* Every value sent is either in the buffer or was returned by one receive;
\* the buffered values are distinct sent values; a receive returns only from
\* a non-empty buffer, returns one of the buffered values and removes that
\* value and nothing else; a send appends one new value and removes nothing.
C15_ChannelAccounting ==
    /\ [](/\ nSent = nRecv + Len(_messages)
          /\ Cardinality(Stamps(_messages)) = Len(_messages)
          /\ Stamps(_messages) \subseteq 1..nSent
          /\ lastRecv \in 0..nSent
          /\ lastRecv \notin Stamps(_messages))
    /\ [][nRecv' # nRecv =>
            /\ _messages # << >>
            /\ nRecv' = nRecv + 1
            /\ lastRecv' \in Stamps(_messages)
            /\ Stamps(_messages') = Stamps(_messages) \ {lastRecv'}
            /\ Len(_messages') = Len(_messages) - 1
            /\ nSent' = nSent]_vars
    /\ [][nSent' # nSent =>
            /\ nSent' = nSent + 1
            /\ _messages' = Append(_messages,
                                   [phase |-> _currentPhase, sent |-> nSent'])
            /\ nRecv' = nRecv]_vars

\* C15 witness: two threads were blocked in receive() at once, one value was
\* sent, one of them has returned with it and the other is still blocked on
\* the empty buffer.
C15_Witness ==
    /\ nSent = 1
    /\ nRecv = 1
    /\ _messages = << >>
    /\ \E v, w \in Vehicles :
           /\ v # w
           /\ pc[v] = "l136"
           /\ pc[w] = "l25"
           /\ w \in _cond

\* C16: receive order is most-recently-sent-first.  The buffer is ordered by
\* send number, and every receive returns the last element, which is the
\* value sent last among the buffered ones, and leaves the older values as
\* they were, in their order.
C16_NewestFirst ==
    /\ [](\A i, j \in 1..Len(_messages) :
              i < j => _messages[i].sent < _messages[j].sent)
    /\ [][nRecv' # nRecv =>
            /\ lastRecv' = _messages[Len(_messages)].sent
            /\ \A k \in Stamps(_messages) : k <= lastRecv'
            /\ _messages' = SubSeq(_messages, 1, Len(_messages) - 1)]_vars

\* C16 witness: a receive returned a newer value than one that was buffered
\* at the time and is buffered still.
C16_Witness ==
    /\ nRecv > 0
    /\ _messages # << >>
    /\ _messages[1].sent < lastRecv

\* C17: frame of vehicleHasLeft.  A step that completes vehicleHasLeft, for
\* whichever vehicle and whether or not _isBlocked was set, leaves _isBlocked
\* false and changes nothing else of the intersection or the light: not the
\* waiting queue, the promises, the locks, the admission loop's position, the
\* phase, the channel's buffer or its waiters; only the caller moves on.
C17_HasLeftFrame ==
    [][departures' # departures =>
          /\ _isBlocked' = FALSE
          /\ departures' = departures + 1
          /\ UNCHANGED << _vehicles, _promises, wv_mutex, fulfilled, lpc, _mtx,
                          _currentPhase, _messages, _cond, tpc, trips >>
          /\ \E v \in Vehicles :
                 /\ pc[v] = "l149"
                 /\ pc' = [pc EXCEPT ![v] = "idle"]]_vars

\* C17 witness: vehicleHasLeft has been completed although no vehicle was
\* ever granted entry and the admission loop never set the flag, while a
\* vehicle is waiting in the queue.
C17_Witness ==
    /\ departures > 0
    /\ grantOrder = << >>
    /\ lpc = "l192"
    /\ _vehicles # << >>
    /\ ~_isBlocked

C19_VectorsAligned ==
    /\ Len(_vehicles) = Len(_promises)
    /\ \A i \in 1..Len(_promises) : _promises[i][1] = _vehicles[i]
    /\ \A i \in 1..Len(_promises) :
           _promises[i] = enqOrder[Len(enqOrder) - Len(_promises) + i]

\* C19 witness: two vehicles are queued, the one with the larger number
\* first, and the admission loop is inside permitEntryToFirstInQueue.
C19_Witness ==
    /\ Len(_vehicles) = 2
    /\ _vehicles[1] > _vehicles[2]
    /\ lpc = "l63"

\* the vehicles inside waitForGreen
InWaitForGreen == {v \in Vehicles : pc[v] \in {"l66", "l25"}}

\* C20 as stated: while a vehicle is inside waitForGreen, no request is
\* appended to the waiting queue.
C20_MutexWhileWaiting_Original ==
    [][InWaitForGreen # {} => enqOrder' = enqOrder]_vars

\* C20, amended: waiting for green holds the intersection mutex.  A vehicle
\* holds _mtx from line 127 until addVehicleToQueue returns, the whole
\* waitForGreen call included; so at most one vehicle is inside waitForGreen,
\* and while one is, a vehicle arriving at line 116 stays there, and the only
\* requests appended are those of vehicles that had passed line 118 before.
C20_MutexWhileWaiting ==
    /\ [](\A v \in Vehicles :
              pc[v] \in {"l131", "l66", "l25", "l136"} => _mtx = {v})
    /\ [](Cardinality(InWaitForGreen) <= 1)
    /\ [][\A w \in Vehicles :
              (InWaitForGreen # {} /\ pc[w] = "l116") => pc'[w] = "l116"]_vars
    /\ [][(InWaitForGreen # {} /\ enqOrder' # enqOrder) =>
              \E w \in Vehicles \ InWaitForGreen :
                  /\ pc[w] = "l123"
                  /\ pc'[w] = "l126"
                  /\ enqOrder' = Append(enqOrder, Request(w))]_vars

\* C20 witness: a vehicle is blocked in receive() inside waitForGreen and
\* holds _mtx, while a newly arrived vehicle is blocked at line 116.
C20_Witness ==
    \E v, w \in Vehicles :
        /\ pc[v] = "l25"
        /\ _mtx = {v}
        /\ pc[w] = "l116"

=============================================================================
